---- MODULE Spec2Model ----
(***************************************************************************)
(* Agentic RAG service: the ingestion entry points (rag/loader.py,         *)
(* services/sources.py, rag/sources.py), the vector index and the Source   *)
(* Store they write, and the two LangGraph workflows (rag/graph.py) with   *)
(* the query functions that run them (core/query.py, services/query.py).   *)
(***************************************************************************)
EXTENDS Integers, Sequences, FiniteSets, TLC

VARIABLES
    index,        \* vector store content: set of [id, ns, page_content, metadata]
    sources,      \* app_state.sources: sequence of [id, url, status] in insertion order
    nextUuid,     \* number of uuid4() values drawn so far
    call,         \* the ingestion call in flight (call.op = "none" when idle)
    ret,          \* value returned by the last finished ingestion call
    last,         \* summary of the finished call before the one in `ret`
    ingests,      \* number of ingestion calls started
    graph,        \* which compiled graph the running query executes
    node,         \* next node of the running graph
    messages,     \* MessagesState["messages"] of the agentic graph
    gstate,       \* GraphState of the retrieve -> generate graph
    steps,        \* super-steps executed by the running graph
    trace,        \* per-run bookkeeping of the workflow (counts, last score, prompts)
    response,     \* outcome of the last query call
    queries,      \* number of query calls started
    chunker,      \* a call of split_documents: its arguments and its result
    conc,         \* ingest_webpage calls in flight at the same time, and the
                  \* order in which their batch upserts reached the index
    boot,         \* the startup routine (core/lifespan.py): its position and
                  \* what it has set on app_state
    agent         \* the module-level WebScraperAgent of services/scraper.py
                  \* and the webscraper calls that use it

ivars == <<index, sources, nextUuid, call, ret, last, ingests>>
qvars == <<graph, node, messages, gstate, steps, trace, response, queries>>
cvars == <<chunker>>
kvars == <<conc>>
svars == <<boot, agent>>
vars  == <<index, sources, nextUuid, call, ret, last, ingests,
           graph, node, messages, gstate, steps, trace, response, queries,
           chunker, conc, boot, agent>>

(***************************************************************************)
(* Bounds of the model                                                     *)
(***************************************************************************)
MaxIngests == 2
MaxQueries == 1
\* cut-off of one graph run, in super-steps: graph.invoke aborts a run with
\* GraphRecursionError at its recursion limit (25 unless configured, and the
\* code configures none); the model cuts a run earlier
RecursionLimit == 15

\* the rewrite cap the specification asks for (section 4.4: "e.g., 2-3")
MaxRewrites == 2

URLS == {"u1", "u2"}
Questions == {"q1", "q2"}
Reformulations == {"rq1"}
DirectAnswers == {"direct"}
Answers == {"answer"}
GraderOutputs == {"yes", "no", "Yes", "YES", ""}

DefaultNamespace == ""

Min(a, b) == IF a <= b THEN a ELSE b

(***************************************************************************)
(* Documents and the vector index                                          *)
(***************************************************************************)
\* f'{url}-SPLIT:{idx}'
SplitId(url, idx) == url \o "-SPLIT:" \o ToString(idx)

\* str(uuid.uuid4()): the n-th value drawn
Uuid(n) == "uuid-" \o ToString(n)

\* variant: the documents are added next to what the index holds
AddDocuments_append(idx, docs, ids, ns) ==
    idx \cup {[id |-> ids[i], ns |-> ns,
               page_content |-> docs[i].page_content,
               metadata |-> docs[i].metadata] : i \in 1..Len(docs)}

\* vectorstore.add_documents(documents, ids, namespace): upsert keyed by id
\* inside the namespace; docs and ids are sequences of equal length
AddDocuments(idx, docs, ids, ns) ==
    LET written == {[id |-> ids[i], ns |-> ns,
                     page_content |-> docs[i].page_content,
                     metadata |-> docs[i].metadata] : i \in 1..Len(docs)}
        keys == {ids[i] : i \in 1..Len(docs)}
        kept == {e \in idx : ~(e.ns = ns /\ e.id \in keys)}
    IN  kept \cup written

\* "\n\n".join(doc.page_content for doc in docs)
JoinContent(docs) == ToString([i \in 1..Len(docs) |-> docs[i].page_content])

\* retriever with search_kwargs k = 1, score_threshold = 0.3 over the default
\* namespace: no match, or the single best match above the threshold
RetrieverK == 1
Retriever(idx) ==
    LET visible == {e \in idx : e.ns = DefaultNamespace}
    IN  {<<>>} \cup
        (IF RetrieverK >= 1 THEN {<<e>> : e \in visible} ELSE {})

\* sequences of n distinct elements of S
RECURSIVE Arrangements(_, _)
Arrangements(S, n) ==
    IF n = 0 THEN {<<>>}
    ELSE UNION {{<<e>> \o s : s \in Arrangements(S \ {e}, n - 1)} : e \in S}

\* vectorstore.similarity_search(question): the k best matches (k defaults
\* to 4) of the default namespace, in ranking order; the ranking is the
\* embedding's and is left open
SEARCH_K == 4
SimilaritySearch(idx) ==
    LET visible == {e \in idx : e.ns = DefaultNamespace}
    IN  Arrangements(visible, Min(SEARCH_K, Cardinality(visible)))

\* variant: a query takes what it searched out of the index
QueryFrame_consume ==
    /\ index' = {}
    /\ UNCHANGED <<sources, nextUuid, call, ret, last, ingests, cvars, kvars, svars>>

\* what no step of a query assigns: execute_query and the graph nodes read
\* app_state.sources, the vector store and the retriever and write none of them
QueryFrame == UNCHANGED <<ivars, cvars, kvars, svars>>

(***************************************************************************)
(* The agentic graph: nodes of rag/graph.py                                *)
(***************************************************************************)
HumanMessage(c) == [type |-> "human", content |-> c, tool_calls |-> <<>>]
AIMessage(c)    == [type |-> "ai", content |-> c, tool_calls |-> <<>>]
ToolCall(q)     == [type |-> "ai", content |-> "", tool_calls |-> <<q>>]
ToolMessage(c)  == [type |-> "tool", content |-> c, tool_calls |-> <<>>]

\* reducer of MessagesState: messages without an id of the state are appended
add_messages(left, right) == left \o right

\* position of the latest human message
LastHuman(msgs) ==
    CHOOSE i \in 1..Len(msgs) :
        /\ msgs[i].type = "human"
        /\ \A j \in (i+1)..Len(msgs) : msgs[j].type # "human"

\* what the model bound to the retriever tool may answer on `msgs`: a direct
\* answer, or a call of the tool on the first or on the latest question
DecideOutputs(msgs) ==
    {AIMessage(a) : a \in DirectAnswers}
      \cup {ToolCall(msgs[i].content) : i \in {1, LastHuman(msgs)}}

\* variant: the edge always leads to the tool node
tools_condition_retrieve(msgs) == "retrieve"

\* tools_condition and the edge map {"tools": "retrieve", END: END}: to
\* "retrieve" when the last message carries tool calls, else to END
tools_condition(msgs) ==
    IF msgs[Len(msgs)].tool_calls # <<>> THEN "retrieve" ELSE "END"

\* context = state["messages"][-1].content
last_content(msgs) == msgs[Len(msgs)].content

\* variant: the rewrite prompt built from the latest message
rewrite_question_latest(msgs) == msgs[Len(msgs)].content

\* question = state["messages"][0].content, in each of the three nodes
grade_question(msgs)    == msgs[1].content
rewrite_question_input(msgs) == msgs[1].content
generate_question(msgs) == msgs[1].content

\* variant: the score compared without regard to case
grade_documents_anycase(score) ==
    IF score \in {"yes", "Yes", "YES"} THEN "generate_answer" ELSE "rewrite_question"

\* the routing of grade_documents on the grader's binary_score
grade_documents(score) ==
    IF score = "yes" THEN "generate_answer" ELSE "rewrite_question"

\* docs: the documents the last Retrieve step returned
NoTrace == [orig |-> "", decides |-> 0, grades |-> 0, rewrites |-> 0,
            score |-> "-", graded |-> FALSE, docs |-> <<>>,
            prompt |-> [by |-> "none", question |-> "", context |-> ""]]

\* outcome of a query call: the QueryResponse (query, answer, sources) or the
\* exception raised, the function that produced it, the context documents of
\* the final state it was computed from, whether the Grade step found them
\* relevant, and for a capability call that raised, the node that made it and
\* how many times the call had been made
NoResponse == [status |-> "none", by |-> "none", query |-> "", answer |-> "",
               sources |-> <<>>, context |-> <<>>, graded |-> FALSE,
               raised_in |-> "none", attempts |-> 0]
NoGState == [has |-> {}, question |-> "", context |-> <<>>, answer |-> ""]

Idle == graph = "none"

\* services/query.py execute_query, up to graph.invoke: no source -> HTTP 400
ExecuteQueryV2(q) ==
    /\ Idle /\ call.op = "none"
    /\ queries < MaxQueries
    /\ queries' = queries + 1
    /\ IF Len(sources) = 0
       THEN /\ response' = [NoResponse EXCEPT !.status = "http400",
                                               !.by = "services", !.query = q]
            /\ UNCHANGED <<graph, node, messages, steps, trace>>
       ELSE /\ graph' = "v2"
            /\ node' = "generate_query_or_respond"
            /\ messages' = <<HumanMessage(q)>>
            /\ steps' = 0
            /\ trace' = [NoTrace EXCEPT !.orig = q]
            /\ response' = NoResponse
    /\ UNCHANGED <<gstate>>
    /\ QueryFrame

Running(g, n) == graph = g /\ node = n /\ steps < RecursionLimit

GenerateQueryOrRespond ==
    /\ Running("v2", "generate_query_or_respond")
    /\ \E resp \in DecideOutputs(messages) :
          /\ messages' = add_messages(messages, <<resp>>)
          /\ node' = tools_condition(messages')
    /\ steps' = steps + 1
    /\ trace' = [trace EXCEPT !.decides = @ + 1, !.score = "-"]
    /\ UNCHANGED <<graph, gstate, response, queries>>
    /\ QueryFrame

\* ToolNode([retriever_tool]): runs the tool call of the last message
RetrieveTool ==
    /\ Running("v2", "retrieve")
    /\ \E docs \in Retriever(index) :
          /\ messages' = add_messages(messages, <<ToolMessage(JoinContent(docs))>>)
          /\ trace' = [trace EXCEPT !.graded = FALSE, !.docs = docs]
    /\ node' = "grade_documents"
    /\ steps' = steps + 1
    /\ UNCHANGED <<graph, gstate, response, queries>>
    /\ QueryFrame

\* conditional edge out of "retrieve"
GradeDocuments ==
    /\ graph = "v2" /\ node = "grade_documents"
    /\ \E score \in GraderOutputs :
          /\ node' = grade_documents(score)
          /\ trace' = [trace EXCEPT
                         !.grades = @ + 1, !.score = score,
                         !.graded = (score = "yes"),
                         !.prompt = [by |-> "grade_documents",
                                     question |-> grade_question(messages),
                                     context |-> last_content(messages)]]
    /\ UNCHANGED <<graph, messages, gstate, steps, response, queries>>
    /\ QueryFrame

RewriteQuestion ==
    /\ Running("v2", "rewrite_question")
    /\ \E r \in Reformulations :
          messages' = add_messages(messages, <<HumanMessage(r)>>)
    /\ node' = "generate_query_or_respond"
    /\ steps' = steps + 1
    /\ trace' = [trace EXCEPT
                   !.rewrites = @ + 1, !.score = "-",
                   !.prompt = [by |-> "rewrite_question",
                               question |-> rewrite_question_input(messages),
                               context |-> ""]]
    /\ UNCHANGED <<graph, gstate, response, queries>>
    /\ QueryFrame

GenerateAnswer ==
    /\ Running("v2", "generate_answer")
    /\ \E a \in Answers :
          messages' = add_messages(messages, <<AIMessage(a)>>)
    /\ node' = "END"
    /\ steps' = steps + 1
    /\ trace' = [trace EXCEPT
                   !.score = "-",
                   !.prompt = [by |-> "generate_answer",
                               question |-> generate_question(messages),
                               context |-> last_content(messages)]]
    /\ UNCHANGED <<graph, gstate, response, queries>>
    /\ QueryFrame

\* graph.invoke raises GraphRecursionError; execute_query lets it propagate
RecursionError ==
    /\ graph = "v2" /\ node \notin {"END", "grade_documents"}
    /\ steps >= RecursionLimit
    /\ graph' = "none" /\ node' = "idle"
    /\ response' = [NoResponse EXCEPT !.status = "error", !.by = "services",
                                       !.query = trace.orig]
    /\ messages' = <<>> /\ steps' = 0 /\ trace' = NoTrace
    /\ UNCHANGED <<gstate, queries>>
    /\ QueryFrame

\* source_urls = [s.url for s in app_state.sources.values() if s.status == "processed"]
ProcessedUrls(srcs) ==
    LET F[i \in 0..Len(srcs)] ==
          IF i = 0 THEN <<>>
          ELSE IF srcs[i].status = "processed" THEN Append(F[i-1], srcs[i].url)
               ELSE F[i-1]
    IN  F[Len(srcs)]

\* services/query.py execute_query, after graph.invoke returned
ExecuteQueryV2Return ==
    /\ graph = "v2" /\ node = "END"
    /\ response' = [status |-> "ok", by |-> "services", query |-> trace.orig,
                    answer |-> last_content(messages),
                    sources |-> ProcessedUrls(sources),
                    context |-> trace.docs, graded |-> trace.graded,
                    raised_in |-> "none", attempts |-> 0]
    /\ graph' = "none" /\ node' = "idle"
    /\ messages' = <<>> /\ steps' = 0 /\ trace' = NoTrace
    /\ UNCHANGED <<gstate, queries>>
    /\ QueryFrame

(***************************************************************************)
(* The graph lifespan installs: create_rag_graph, retrieve -> generate,    *)
(* run by core/query.py execute_query                                      *)
(***************************************************************************)
\* app_state.graph = create_rag_graph(...) of rag/graph.py (core/lifespan.py)
InstalledGraph == "v1"

ExecuteQuery(q) ==
    /\ Idle /\ call.op = "none"
    /\ queries < MaxQueries
    /\ queries' = queries + 1
    /\ graph' = InstalledGraph
    /\ node' = "retrieve"
    /\ gstate' = [NoGState EXCEPT !.has = {"question"}, !.question = q]
    /\ steps' = 0
    /\ trace' = [NoTrace EXCEPT !.orig = q]
    /\ response' = NoResponse
    /\ UNCHANGED <<messages>>
    /\ QueryFrame

Retrieve ==
    /\ Running("v1", "retrieve")
    /\ \E docs \in SimilaritySearch(index) :
          /\ gstate' = [gstate EXCEPT !.has = @ \cup {"context"}, !.context = docs]
          /\ trace' = [trace EXCEPT !.graded = FALSE, !.docs = docs]
    /\ node' = "generate"
    /\ steps' = steps + 1
    /\ UNCHANGED <<graph, messages, response, queries>>
    /\ QueryFrame

Generate ==
    /\ Running("v1", "generate")
    /\ \E a \in Answers :
          gstate' = [gstate EXCEPT !.has = @ \cup {"answer"}, !.answer = a]
    /\ node' = "END"
    /\ steps' = steps + 1
    /\ trace' = [trace EXCEPT
                   !.prompt = [by |-> "generate",
                               question |-> gstate.question,
                               context |-> JoinContent(gstate.context)]]
    /\ UNCHANGED <<graph, messages, response, queries>>
    /\ QueryFrame

\* similarity_search (retrieve) or llm.invoke (generate) raises: the node
\* makes the call once, nothing around it catches the exception, and it leaves
\* graph.invoke and execute_query
CapabilityError ==
    /\ graph = "v1" /\ node \in {"retrieve", "generate"}
    /\ steps < RecursionLimit
    /\ response' = [NoResponse EXCEPT !.status = "exception", !.by = "core",
                                       !.query = gstate.question,
                                       !.raised_in = node, !.attempts = 1]
    /\ graph' = "none" /\ node' = "idle"
    /\ gstate' = NoGState /\ steps' = 0 /\ trace' = NoTrace
    /\ UNCHANGED <<messages, queries>>
    /\ QueryFrame

\* variant: every "source" value is kept, repeated or not
SourcesOf_all(context) ==
    [i \in 1..Len(context) |-> context[i].metadata.source]

\* core/query.py lines 36-43: the "source" metadata of the context documents,
\* each kept at its first occurrence
SourcesOf(context) ==
    LET F[i \in 0..Len(context)] ==
          IF i = 0 THEN <<>>
          ELSE LET doc == context[i]
               IN  IF "source" \in DOMAIN doc.metadata
                      /\ ~(\E j \in 1..Len(F[i-1]) : F[i-1][j] = doc.metadata.source)
                   THEN Append(F[i-1], doc.metadata.source)
                   ELSE F[i-1]
    IN  F[Len(context)]

NO_SOURCES == <<"No sources found">>

\* variant: the list is returned as it is, empty or not
sources_or_empty(srcs) == srcs

\* line 48: sources if sources else ['No sources found']
sources_or_sentinel(srcs) == IF srcs # <<>> THEN srcs ELSE NO_SOURCES

ExecuteQueryReturn ==
    /\ graph = "v1" /\ node = "END"
    /\ response' =
         IF "answer" \in gstate.has
         THEN [status |-> "ok", by |-> "core", query |-> gstate.question,
               answer |-> gstate.answer,
               sources |-> sources_or_sentinel(SourcesOf(gstate.context)),
               context |-> gstate.context, graded |-> trace.graded,
               raised_in |-> "none", attempts |-> 0]
         ELSE [NoResponse EXCEPT !.status = "http500", !.by = "core",
                                 !.query = gstate.question]
    /\ graph' = "none" /\ node' = "idle"
    /\ gstate' = NoGState /\ steps' = 0 /\ trace' = NoTrace
    /\ UNCHANGED <<messages, queries>>
    /\ QueryFrame

NextWorkflow ==
    \/ \E q \in Questions : ExecuteQuery(q)
    \/ Retrieve
    \/ Generate
    \/ CapabilityError
    \/ ExecuteQueryReturn
    \/ \E q \in Questions : ExecuteQueryV2(q)
    \/ GenerateQueryOrRespond
    \/ RetrieveTool
    \/ GradeDocuments
    \/ RewriteQuestion
    \/ GenerateAnswer
    \/ RecursionError
    \/ ExecuteQueryV2Return

(***************************************************************************)
(* Fetching and splitting                                                  *)
(***************************************************************************)
\* what a fetch of a URL may find there: an empty page, a short one, a long one
Contents == {0, 1, 2}

\* length of the text splitter's output on a page (split_documents); the
\* splitter's parameters differ between the entry points (1000/200 and 100/50)
\* and only the length of its result matters to the ingestion code
NumChunks(c) == CASE c = 0 -> 0 [] c = 1 -> 2 [] c = 2 -> 101

Document(text, meta) == [page_content |-> text, metadata |-> meta]

\* variant: the loader records a fixed label instead of the path it loaded
Load_label(url, c) == <<Document("page" \o ToString(c), [source |-> "web"])>>

\* WebBaseLoader(url).load(): one Document per web path, metadata {"source": url}
Load(url, c) == <<Document("page" \o ToString(c), [source |-> url])>>

ChunkText(c, i) == "c" \o ToString(c) \o "#" \o ToString(i)

\* RecursiveCharacterTextSplitter(...).split_documents(docs): the chunks of
\* every document in order, each with a copy of its document's metadata
SplitDocuments(docs, c) ==
    [i \in 1..(Len(docs) * NumChunks(c)) |->
        Document(ChunkText(c, i - 1), docs[1].metadata)]

\* rag/loader.py lines 48-54: metadata['url'] and the ids of the splits
SetUrl(doc, url) ==
    [doc EXCEPT !.metadata = [source |-> doc.metadata.source, url |-> url]]
WithUrl(splits, url) == [i \in 1..Len(splits) |-> SetUrl(splits[i], url)]
SplitIds(url, n) == [i \in 1..n |-> SplitId(url, i - 1)]

\* batch_size = min(100, len(doc_splits))
BATCH_LIMIT == 100
BatchSize(n) == Min(BATCH_LIMIT, n)

\* variant: the slice takes the element at its upper bound too
Slice_inclusive(s, lo, hi) == SubSeq(s, lo + 1, Min(hi + 1, Len(s)))

\* doc_splits[i:i+batch_size], 0-based slice bounds on a 1-based sequence
Slice(s, lo, hi) == SubSeq(s, lo + 1, Min(hi, Len(s)))

\* batch_docs and batch_ids of the loop iteration that starts at lo
Batch(splits, ids, lo, hi) ==
    [docs |-> Slice(splits, lo, hi), ids |-> Slice(ids, lo, hi)]

Namespace(op) ==
    CASE op = "ingest_webpage" -> "dev"
      [] op = "process_source" -> DefaultNamespace
      [] op = "process_source_play" -> "some_specific_namespace"

\* SourceState(url, status, text, scraped_at) of models/schemas.py
SourceState(url, status, scraped_at) ==
    [url |-> url, status |-> status, text |-> "None", scraped_at |-> scraped_at]

\* chunks of a URL held by the index, by the loader's "source" metadata
ChunksOf(idx, url) == {e \in idx : e.metadata.source = url}

(***************************************************************************)
(* Ingestion calls.  One call runs at a time: ingest_webpage is a coroutine *)
(* without a suspension point and process_source is synchronous.           *)
(***************************************************************************)
NoCall == [op |-> "none"]
NoRet == [status |-> "none"]

CanStart == call.op = "none" /\ graph = "none" /\ ingests < MaxIngests

NewCall(op, url, sid) ==
    [op |-> op, url |-> url, pc |-> "fetch", sid |-> sid,
     content |-> -1, n |-> 0, i |-> 0, batch_size |-> 0,
     exc |-> "None", raised_at |-> "none", attempted |-> <<>>,
     batches |-> <<>>, index_before |-> index]

\* rag/loader.py ingest_webpage: entry; it records nothing in the Source Store
IngestWebpage(url) ==
    /\ CanStart
    /\ call' = NewCall("ingest_webpage", url, 0)
    /\ ingests' = ingests + 1
    /\ UNCHANGED <<index, sources, nextUuid, ret, last, qvars, cvars, kvars, svars>>

Raise(c, where, e) ==
    [c EXCEPT !.pc = "except", !.exc = e, !.raised_at = where]

\* docs = await app_state.scraper.scrape_content(str(url), partial=True)
ScrapeContent ==
    /\ call.op = "ingest_webpage" /\ call.pc = "fetch"
    /\ \/ call' = Raise(call, "fetch", "TimeoutError")
       \/ \E c \in Contents : call' = [call EXCEPT !.pc = "split", !.content = c]
    /\ UNCHANGED <<index, sources, nextUuid, ret, last, ingests, qvars, cvars, kvars, svars>>

\* lines 31-60: split, metadata and ids, batch_size, and the range of the loop
\* (range(0, 0, 0) raises ValueError when there is no split)
SplitAndBatch ==
    /\ call.op = "ingest_webpage" /\ call.pc = "split"
    /\ \/ call' = Raise(call, "split", "SplitError")
       \/ LET n  == Len(SplitDocuments(Load(call.url, call.content), call.content))
              bs == BatchSize(n)
          IN  call' = IF bs = 0
                      THEN Raise([call EXCEPT !.n = n], "range", "ValueError")
                      ELSE [call EXCEPT !.pc = "batch", !.n = n,
                                        !.batch_size = bs, !.i = 0]
    /\ UNCHANGED <<index, sources, nextUuid, ret, last, ingests, qvars, cvars, kvars, svars>>

\* variant: the failure of a batch is swallowed and the loop goes on
on_batch_error_continue(c) ==
    [c EXCEPT !.attempted = Append(@, "failed"),
              !.i = c.i + c.batch_size,
              !.pc = IF c.i + c.batch_size < c.n THEN "batch" ELSE "done"]

\* add_documents raises inside the loop: control leaves it for the except clause
on_batch_error(c) ==
    Raise([c EXCEPT !.attempted = Append(@, "failed")], "upsert", "IndexError")

\* one iteration of the batch loop: add_documents(batch_docs, batch_ids, 'dev')
UpsertBatch ==
    /\ call.op = "ingest_webpage" /\ call.pc = "batch"
    /\ LET splits == WithUrl(SplitDocuments(Load(call.url, call.content),
                                            call.content), call.url)
           ids    == SplitIds(call.url, call.n)
           lo     == call.i
           hi     == call.i + call.batch_size
           b      == Batch(splits, ids, lo, hi)
       IN  \/ /\ call' = on_batch_error([call EXCEPT !.batches = Append(@, b)])
              /\ index' = index
           \/ /\ index' = AddDocuments(index, b.docs, b.ids, Namespace(call.op))
              /\ call' = [call EXCEPT
                            !.attempted = Append(@, "ok"),
                            !.batches = Append(@, b),
                            !.i = hi,
                            !.pc = IF hi < call.n THEN "batch" ELSE "done"]
    /\ UNCHANGED <<sources, nextUuid, ret, last, ingests, qvars, cvars, kvars, svars>>

Finished(c, source, idx) ==
    [status |-> source.status, source |-> source, op |-> c.op, url |-> c.url,
     sid |-> c.sid, content |-> c.content, n |-> c.n, exc |-> c.exc,
     raised_at |-> c.raised_at, attempted |-> c.attempted,
     index_unchanged |-> (idx = c.index_before),
     count |-> Cardinality(ChunksOf(idx, c.url))]

\* what is remembered of the call before the last one
Brief(r) ==
    IF r.status = "none" THEN r
    ELSE [status |-> r.status, op |-> r.op, url |-> r.url,
          content |-> r.content, count |-> r.count]

\* the result of ingest_webpage: processed with a timestamp, or failed
ingest_webpage_result(c) ==
    IF c.pc = "done"
    THEN SourceState(c.url, "processed", "now")
    ELSE SourceState(c.url, "failed", "None")

IngestWebpageReturn ==
    /\ call.op = "ingest_webpage" /\ call.pc \in {"done", "except"}
    /\ ret' = Finished(call, ingest_webpage_result(call), index)
    /\ last' = Brief(ret)
    /\ call' = NoCall
    /\ UNCHANGED <<index, sources, nextUuid, ingests, qvars, cvars, kvars, svars>>

(***************************************************************************)
(* process_source (services/sources.py) and process_source_play            *)
(* (rag/sources.py): they differ in the namespace they write to            *)
(***************************************************************************)
ProcessOps == {"process_source", "process_source_play"}

\* variant: the status is written to every entry of the store
SetStatus_all(srcs, sid, st) ==
    [k \in 1..Len(srcs) |-> [srcs[k] EXCEPT !.status = st]]

\* app_state.sources[source_id].status = st
SetStatus(srcs, sid, st) ==
    [k \in 1..Len(srcs) |->
        IF srcs[k].id = sid THEN [srcs[k] EXCEPT !.status = st] ELSE srcs[k]]

ProcessSource(op, url) ==
    /\ CanStart
    /\ call' = NewCall(op, url, Uuid(nextUuid))
    /\ nextUuid' = nextUuid + 1
    /\ sources' = Append(sources, [id |-> Uuid(nextUuid), url |-> url,
                                   status |-> "pending"])
    /\ ingests' = ingests + 1
    /\ UNCHANGED <<index, ret, last, qvars, cvars, kvars, svars>>

\* docs = WebBaseLoader(str(url)).load()
LoadDocs ==
    /\ call.op \in ProcessOps /\ call.pc = "fetch"
    /\ \/ call' = Raise(call, "fetch", "TimeoutError")
       \/ \E c \in Contents : call' = [call EXCEPT !.pc = "split", !.content = c]
    /\ UNCHANGED <<index, sources, nextUuid, ret, last, ingests, qvars, cvars, kvars, svars>>

SplitDocs ==
    /\ call.op \in ProcessOps /\ call.pc = "split"
    /\ \/ call' = Raise(call, "split", "SplitError")
       \/ call' = [call EXCEPT
                     !.pc = "add",
                     !.n = Len(SplitDocuments(Load(call.url, call.content),
                                              call.content))]
    /\ UNCHANGED <<index, sources, nextUuid, ret, last, ingests, qvars, cvars, kvars, svars>>

\* ids the vector store draws for documents added without ids
FreshIds(from, n) == [i \in 1..n |-> Uuid(from + i - 1)]

\* app_state.vectorstore.add_documents(doc_splits[, namespace=...])
AddSplits ==
    /\ call.op \in ProcessOps /\ call.pc = "add"
    /\ LET splits == SplitDocuments(Load(call.url, call.content), call.content)
       IN  \/ /\ call' = Raise([call EXCEPT !.attempted = Append(@, "failed")],
                               "upsert", "IndexError")
              /\ UNCHANGED <<index, nextUuid>>
           \/ /\ index' = AddDocuments(index, splits,
                                       FreshIds(nextUuid, call.n), Namespace(call.op))
              /\ nextUuid' = nextUuid + call.n
              /\ call' = [call EXCEPT !.attempted = Append(@, "ok"), !.pc = "done"]
    /\ UNCHANGED <<sources, ret, last, ingests, qvars, cvars, kvars, svars>>

\* variant: the except clause leaves the status as it was
process_source_status_unhandled(c) == IF c.pc = "done" THEN "processed" ELSE "pending"

\* the status process_source records in the store and returns
process_source_status(c) == IF c.pc = "done" THEN "processed" ELSE "failed"

ProcessSourceReturn ==
    /\ call.op \in ProcessOps /\ call.pc \in {"done", "except"}
    /\ sources' = SetStatus(sources, call.sid, process_source_status(call))
    /\ ret' = Finished(call,
                       SourceState(call.url, process_source_status(call), "None"),
                       index)
    /\ last' = Brief(ret)
    /\ call' = NoCall
    /\ UNCHANGED <<index, nextUuid, ingests, qvars, cvars, kvars, svars>>

NextIngest ==
    \/ \E u \in URLS : IngestWebpage(u)
    \/ ScrapeContent
    \/ SplitAndBatch
    \/ UpsertBatch
    \/ IngestWebpageReturn
    \/ \E op \in ProcessOps, u \in URLS : ProcessSource(op, u)
    \/ LoadDocs
    \/ SplitDocs
    \/ AddSplits
    \/ ProcessSourceReturn

InitQuery ==
    /\ graph = "none" /\ node = "idle"
    /\ messages = <<>> /\ gstate = NoGState
    /\ steps = 0 /\ trace = NoTrace
    /\ response = NoResponse /\ queries = 0

NoChunker == [pc |-> "none"]
NoConc == [procs |-> <<>>, log |-> <<>>, slots |-> <<>>]
NoBoot == [pc |-> "none"]

Init ==
    /\ index = {} /\ sources = <<>> /\ nextUuid = 0
    /\ call = NoCall /\ ret = NoRet /\ last = NoRet /\ ingests = 0
    /\ InitQuery
    /\ chunker = NoChunker
    /\ conc = NoConc
    /\ boot = NoBoot /\ agent = [pc |-> "none"]

Spec == Init /\ [][NextIngest]_vars

\* the stores a query may find: nothing ingested, or the state process_source
\* leaves after one call on a short page (processed) or on a failed fetch
AfterProcessSource(url, ok) ==
    [sources |-> <<[id |-> Uuid(0), url |-> url,
                    status |-> IF ok THEN "processed" ELSE "failed"]>>,
     index |-> IF ok
               THEN AddDocuments({}, SplitDocuments(Load(url, 1), 1),
                                 FreshIds(1, NumChunks(1)), DefaultNamespace)
               ELSE {},
     nextUuid |-> IF ok THEN 1 + NumChunks(1) ELSE 1]

\* the state a further, successful process_source(url) on a short page leaves
ThenProcessSource(st, url) ==
    [sources |-> Append(st.sources, [id |-> Uuid(st.nextUuid), url |-> url,
                                     status |-> "processed"]),
     index |-> AddDocuments(st.index, SplitDocuments(Load(url, 1), 1),
                            FreshIds(st.nextUuid + 1, NumChunks(1)),
                            DefaultNamespace),
     nextUuid |-> st.nextUuid + 1 + NumChunks(1)]

\* the stores a query is started on
Stores ==
    {[sources |-> <<>>, index |-> {}, nextUuid |-> 0],
     AfterProcessSource("u1", FALSE),
     AfterProcessSource("u1", TRUE),
     ThenProcessSource(AfterProcessSource("u1", TRUE), "u2")}

InitWorkflow ==
    /\ \E st \in Stores :
          index = st.index /\ sources = st.sources /\ nextUuid = st.nextUuid
    /\ call = NoCall /\ ret = NoRet /\ last = NoRet /\ ingests = 0
    /\ InitQuery
    /\ chunker = NoChunker
    /\ conc = NoConc
    /\ boot = NoBoot /\ agent = [pc |-> "none"]

SpecWorkflow == InitWorkflow /\ [][NextWorkflow]_vars

(***************************************************************************)
(* delete_source of app.py, together with queries on the installed graph   *)
(***************************************************************************)
\* an id no entry of the store has
UnknownId == "no-such-id"

HasSource(srcs, sid) == \E k \in 1..Len(srcs) : srcs[k].id = sid

\* variant: deleting one source clears the store
RemoveSource_clear(srcs, sid) == <<>>

\* del app_state.sources[source_id]
RemoveSource(srcs, sid) == SelectSeq(srcs, LAMBDA s : s.id # sid)

\* DELETE /sources/{source_id}: 404 for an id the store does not hold, else
\* the entry is removed; the vector store is not touched
DeleteSource(sid) ==
    /\ Idle /\ call.op = "none"
    /\ IF ~HasSource(sources, sid)
       THEN /\ ret' = [status |-> "http404", op |-> "delete_source", id |-> sid]
            /\ sources' = sources
       ELSE /\ sources' = RemoveSource(sources, sid)
            /\ ret' = [status |-> "deleted", op |-> "delete_source", id |-> sid]
    /\ UNCHANGED <<index, nextUuid, call, last, ingests, qvars, cvars, kvars, svars>>

NextDelete ==
    \/ \E sid \in {sources[k].id : k \in 1..Len(sources)} \cup {UnknownId} :
          DeleteSource(sid)
    \/ \E q \in Questions : ExecuteQuery(q)
    \/ Retrieve
    \/ Generate
    \/ CapabilityError
    \/ ExecuteQueryReturn

SpecDelete == InitWorkflow /\ [][NextDelete]_vars

(***************************************************************************)
(* Startup: lifespan of core/lifespan.py.  It ingests the default sources  *)
(* one after the other with ingest_webpage, then builds the retriever and  *)
(* the graph.  The list in the code is empty (every entry is commented     *)
(* out); the loop is modelled on lists of up to MaxDefaults URLs.          *)
(***************************************************************************)
MaxDefaults == 2

\* variant: AppState starts with an empty list of sources
AppState_sources_list == [present |-> TRUE, urls |-> <<>>]

\* core/state.py AppState.__init__ assigns retriever, retriever_tool, graph,
\* vectorstore, embeddings and llm: the object has no attribute `sources`
AppState_sources == [present |-> FALSE, urls |-> <<>>]

InitStartup ==
    /\ index = {} /\ sources = <<>> /\ nextUuid = 0
    /\ call = NoCall /\ ret = NoRet /\ last = NoRet /\ ingests = 0
    /\ InitQuery
    /\ chunker = NoChunker
    /\ conc = NoConc
    /\ agent = [pc |-> "none"]
    /\ \E d \in UNION {[1..n -> URLS] : n \in 0..MaxDefaults} :
          boot = [pc |-> "loop", defaults |-> d, k |-> 1,
                  available |-> AppState_sources,
                  results |-> <<>>, errors |-> 0,
                  retriever |-> FALSE, graph |-> "none"]

\* line 42: await ingest_webpage(url) for the next default source
LifespanIngest ==
    /\ boot.pc = "loop" /\ boot.k <= Len(boot.defaults)
    /\ call.op = "none"
    /\ call' = NewCall("ingest_webpage", boot.defaults[boot.k], 0)
    /\ boot' = [boot EXCEPT !.pc = "await"]
    /\ UNCHANGED <<index, sources, nextUuid, ret, last, ingests,
                   qvars, cvars, kvars, agent>>

\* lines 43-45: app_state.sources.append(url), whatever ingest_webpage
\* returned (its value is dropped); on an object without the attribute the
\* statement raises AttributeError, which the except clause prints
LifespanAppend ==
    /\ boot.pc = "await" /\ call.op = "none"
    /\ boot' = [boot EXCEPT
                  !.pc = "loop",
                  !.k = @ + 1,
                  !.results = Append(@, ret.status),
                  !.available =
                      IF boot.available.present
                      THEN [@ EXCEPT !.urls = Append(@, boot.defaults[boot.k])]
                      ELSE @,
                  !.errors = IF boot.available.present THEN @ ELSE @ + 1]
    /\ UNCHANGED <<ivars, qvars, cvars, kvars, agent>>

\* lines 47-59: the retriever, the retriever tool and the graph
LifespanSetup ==
    /\ boot.pc = "loop" /\ boot.k > Len(boot.defaults)
    /\ boot' = [boot EXCEPT !.pc = "done", !.retriever = TRUE,
                            !.graph = InstalledGraph]
    /\ UNCHANGED <<ivars, qvars, cvars, kvars, agent>>

NextStartup ==
    \/ LifespanIngest
    \/ ScrapeContent
    \/ SplitAndBatch
    \/ UpsertBatch
    \/ IngestWebpageReturn
    \/ LifespanAppend
    \/ LifespanSetup

SpecStartup == InitStartup /\ [][NextStartup]_vars

(***************************************************************************)
(* Concurrent ingestion: two calls of ingest_webpage in flight at once,    *)
(* their steps interleaved in every order (each add_documents call is one  *)
(* step: the store applies an upsert request as a whole).                  *)
(***************************************************************************)
Procs == {1, 2}

InitConcurrent ==
    /\ index = {} /\ sources = <<>> /\ nextUuid = 0
    /\ call = NoCall /\ ret = NoRet /\ last = NoRet /\ ingests = 0
    /\ InitQuery
    /\ chunker = NoChunker
    /\ conc = [procs |-> [p \in Procs |-> NoCall], log |-> <<>>, slots |-> <<>>]
    /\ boot = NoBoot /\ agent = [pc |-> "none"]

ConcFrame == UNCHANGED <<ivars, qvars, cvars, svars>>

SetProc(p, c) == [conc EXCEPT !.procs[p] = c]

\* entry of ingest_webpage in process p
CIngestWebpage(p, url) ==
    /\ conc.procs[p].op = "none"
    /\ conc' = SetProc(p, [NewCall("ingest_webpage", url, 0) EXCEPT
                              !.index_before = {}])
    /\ ConcFrame

\* docs = await app_state.scraper.scrape_content(str(url), partial=True)
CScrapeContent(p) ==
    LET c == conc.procs[p]
    IN  /\ c.op = "ingest_webpage" /\ c.pc = "fetch"
        /\ \/ conc' = SetProc(p, Raise(c, "fetch", "TimeoutError"))
           \/ \E x \in Contents :
                 conc' = SetProc(p, [c EXCEPT !.pc = "split", !.content = x])
        /\ ConcFrame

\* lines 31-60 in process p
CSplitAndBatch(p) ==
    LET c  == conc.procs[p]
    IN  /\ c.op = "ingest_webpage" /\ c.pc = "split"
        /\ \/ conc' = SetProc(p, Raise(c, "split", "SplitError"))
           \/ LET n  == Len(SplitDocuments(Load(c.url, c.content), c.content))
                  bs == BatchSize(n)
              IN  conc' = SetProc(p,
                            IF bs = 0
                            THEN Raise([c EXCEPT !.n = n], "range", "ValueError")
                            ELSE [c EXCEPT !.pc = "batch", !.n = n,
                                           !.batch_size = bs, !.i = 0])
        /\ ConcFrame

\* one iteration of the batch loop of process p
CUpsertBatch(p) ==
    LET c      == conc.procs[p]
        splits == WithUrl(SplitDocuments(Load(c.url, c.content), c.content), c.url)
        ids    == SplitIds(c.url, c.n)
        lo     == c.i
        hi     == c.i + c.batch_size
        b      == Batch(splits, ids, lo, hi)
    IN  /\ c.op = "ingest_webpage" /\ c.pc = "batch"
        /\ \/ /\ conc' = [SetProc(p, on_batch_error(
                                          [c EXCEPT !.batches = Append(@, b)]))
                          EXCEPT !.log = Append(@, p)]
              /\ index' = index
           \/ /\ index' = AddDocuments(index, b.docs, b.ids, Namespace(c.op))
              /\ conc' = [SetProc(p, [c EXCEPT
                                        !.attempted = Append(@, "ok"),
                                        !.batches = Append(@, b),
                                        !.i = hi,
                                        !.pc = IF hi < c.n THEN "batch" ELSE "done"])
                          EXCEPT !.log = Append(@, p)]
        /\ UNCHANGED <<sources, nextUuid, call, ret, last, ingests, qvars, cvars, svars>>

\* the return of ingest_webpage in process p
CIngestWebpageReturn(p) ==
    LET c == conc.procs[p]
    IN  /\ c.op = "ingest_webpage" /\ c.pc \in {"done", "except"}
        /\ conc' = SetProc(p, [op |-> "returned", url |-> c.url,
                               content |-> c.content, n |-> c.n,
                               attempted |-> c.attempted,
                               source |-> ingest_webpage_result(c)])
        /\ ConcFrame

NextConcurrent ==
    \E p \in Procs :
        \/ \E u \in URLS : CIngestWebpage(p, u)
        \/ CScrapeContent(p)
        \/ CSplitAndBatch(p)
        \/ CUpsertBatch(p)
        \/ CIngestWebpageReturn(p)

SpecConcurrent == InitConcurrent /\ [][NextConcurrent]_vars

\* the index a single ingest_webpage(url) of content x leaves when it succeeds
SingleIngestion(url, x) ==
    LET n == NumChunks(x)
    IN  AddDocuments({}, WithUrl(SplitDocuments(Load(url, x), x), url),
                     SplitIds(url, n), Namespace("ingest_webpage"))

(***************************************************************************)
(* Concurrent queries: two calls of core/query.py execute_query in flight  *)
(* at once on the installed graph, their steps interleaved in every order  *)
(***************************************************************************)
\* variant: every call keeps its state in one shared place
StateSlot_shared(p) == 1

\* initial_state = GraphState(question=query_text) is a local of the call and
\* graph.invoke keeps the state of a run in that run: call p has its own
StateSlot(p) == p

NoQuery == [op |-> "none"]

InitConcurrentQuery ==
    /\ \E st \in Stores :
          index = st.index /\ sources = st.sources /\ nextUuid = st.nextUuid
    /\ call = NoCall /\ ret = NoRet /\ last = NoRet /\ ingests = 0
    /\ InitQuery
    /\ chunker = NoChunker
    /\ conc = [procs |-> [p \in Procs |-> NoQuery], log |-> <<>>,
               slots |-> [k \in Procs |-> NoGState]]
    /\ boot = NoBoot /\ agent = [pc |-> "none"]

SetSlot(c, k, st) == [c EXCEPT !.slots[k] = st]

\* execute_query, up to graph.invoke; asked, retrieved and prompt record what
\* this call submitted, what its Retrieve got and what its Generate was given
CExecuteQuery(p, q) ==
    /\ conc.procs[p].op = "none"
    /\ conc' = SetSlot(SetProc(p, [op |-> "execute_query", node |-> "retrieve",
                                   slot |-> StateSlot(p), asked |-> q,
                                   retrieved |-> <<>>,
                                   prompt |-> [question |-> "", context |-> ""]]),
                       StateSlot(p),
                       [NoGState EXCEPT !.has = {"question"}, !.question = q])
    /\ ConcFrame

\* create_rag_graph.retrieve in the run of call p
CRetrieve(p) ==
    LET c == conc.procs[p]
    IN  /\ c.op = "execute_query" /\ c.node = "retrieve"
        /\ \E docs \in SimilaritySearch(index) :
              conc' = SetSlot(SetProc(p, [c EXCEPT !.node = "generate",
                                                   !.retrieved = docs]),
                              c.slot,
                              [conc.slots[c.slot] EXCEPT
                                  !.has = @ \cup {"context"}, !.context = docs])
        /\ ConcFrame

\* create_rag_graph.generate in the run of call p
CGenerate(p) ==
    LET c  == conc.procs[p]
        st == conc.slots[c.slot]
    IN  /\ c.op = "execute_query" /\ c.node = "generate"
        /\ \E a \in Answers :
              conc' = SetSlot(SetProc(p, [c EXCEPT
                                            !.node = "END",
                                            !.prompt = [question |-> st.question,
                                                        context |-> JoinContent(st.context)]]),
                              c.slot,
                              [st EXCEPT !.has = @ \cup {"answer"}, !.answer = a])
        /\ ConcFrame

\* similarity_search or llm.invoke raises in the run of call p
CCapabilityError(p) ==
    LET c == conc.procs[p]
    IN  /\ c.op = "execute_query" /\ c.node \in {"retrieve", "generate"}
        /\ conc' = SetProc(p, [op |-> "returned", asked |-> c.asked,
                               retrieved |-> c.retrieved, prompt |-> c.prompt,
                               response |-> [NoResponse EXCEPT
                                               !.status = "exception", !.by = "core",
                                               !.query = c.asked,
                                               !.raised_in = c.node,
                                               !.attempts = 1]])
        /\ ConcFrame

\* execute_query, after graph.invoke returned final_state
CExecuteQueryReturn(p) ==
    LET c  == conc.procs[p]
        st == conc.slots[c.slot]
    IN  /\ c.op = "execute_query" /\ c.node = "END"
        /\ conc' = SetProc(p,
              [op |-> "returned", asked |-> c.asked,
               retrieved |-> c.retrieved, prompt |-> c.prompt,
               response |->
                 IF "answer" \in st.has
                 THEN [status |-> "ok", by |-> "core", query |-> c.asked,
                       answer |-> st.answer,
                       sources |-> sources_or_sentinel(SourcesOf(st.context)),
                       context |-> st.context, graded |-> FALSE,
                       raised_in |-> "none", attempts |-> 0]
                 ELSE [NoResponse EXCEPT !.status = "http500", !.by = "core",
                                         !.query = c.asked]])
        /\ ConcFrame

NextConcurrentQuery ==
    \E p \in Procs :
        \/ \E q \in Questions : CExecuteQuery(p, q)
        \/ CRetrieve(p)
        \/ CGenerate(p)
        \/ CCapabilityError(p)
        \/ CExecuteQueryReturn(p)

SpecConcurrentQuery == InitConcurrentQuery /\ [][NextConcurrentQuery]_vars

(***************************************************************************)
(* services/scraper.py: two webscraper calls on the module-level            *)
(* WebScraperAgent `scraper`.  A coroutine runs without interruption from   *)
(* one await to the next; an action is the code from the resumption of an   *)
(* await up to the next suspension.  The playwright instance, browser and   *)
(* page that the init_browser of call p creates are the objects p;          *)
(* scraper.playwright, scraper.browser and scraper.page hold 0 (None) or    *)
(* the number of the object they refer to.                                  *)
(***************************************************************************)
NoLocals ==
    [pc |-> "idle", h |-> 0, shot |-> FALSE, result |-> "None",
     failed |-> "none", used |-> "none", exc |-> "None"]

InitScraper ==
    /\ index = {} /\ sources = <<>> /\ nextUuid = 0
    /\ call = NoCall /\ ret = NoRet /\ last = NoRet /\ ingests = 0
    /\ InitQuery
    /\ chunker = NoChunker
    /\ conc = NoConc
    /\ boot = NoBoot
    /\ agent = [playwright |-> 0, browser |-> 0, page |-> 0,
                obj |-> [p \in Procs |->
                           [pw |-> "none", browser |-> "none", page |-> "none"]],
                procs |-> [p \in Procs |-> NoLocals]]

ScraperFrame == UNCHANGED <<ivars, qvars, cvars, kvars, boot>>

\* browser.close(): the browser and its page are closed
CloseBrowser(o) ==
    [o EXCEPT !.browser = IF @ = "open" THEN "closed" ELSE @,
              !.page = IF @ = "open" THEN "closed" ELSE @]

\* playwright.stop(): the driver ends, and with it the browser it launched
StopPlaywright(o) ==
    [CloseBrowser(o) EXCEPT !.pw = IF @ = "running" THEN "stopped" ELSE @]

\* finally: await scraper.close(), up to its first suspension.  With
\* scraper.browser None, self.browser.close() raises AttributeError, which
\* leaves webscraper; otherwise the call waits for browser.close()
EnterClose(a, l) ==
    IF a.browser = 0
    THEN [l EXCEPT !.pc = "raised", !.exc = "AttributeError"]
    ELSE [l EXCEPT !.pc = "w_browser_close", !.h = a.browser]

\* an exception inside the try block: printed by the except clause, then the
\* finally clause runs
Fail(a, l, where) == EnterClose(a, [l EXCEPT !.failed = where])

\* the next operation on self.page, evaluated now: AttributeError when the
\* attribute is None, else the call waits for the operation on that page
NextPageOp(a, l, op, where) ==
    IF a.page = 0
    THEN Fail(a, [l EXCEPT !.used = "None"], where)
    ELSE [l EXCEPT !.pc = op, !.h = a.page]

SetLocals(a, p, l) == [a EXCEPT !.procs[p] = l]

\* webscraper up to the first await of scrape_content: init_browser when
\* there is no page or the page is closed, else goto on the page that is there
Webscraper(p) ==
    LET l == agent.procs[p]
    IN  /\ l.pc = "idle"
        /\ agent' = SetLocals(agent, p,
              IF agent.page = 0 \/ agent.obj[agent.page].page # "open"
              THEN [l EXCEPT !.pc = "w_start"]
              ELSE [l EXCEPT !.pc = "w_goto", !.h = agent.page])
        /\ ScraperFrame

\* self.playwright = await async_playwright().start()
ResumeStart(p) ==
    LET l == agent.procs[p]
    IN  /\ l.pc = "w_start"
        /\ \/ agent' = SetLocals(agent, p, Fail(agent, l, "start"))
           \/ agent' = SetLocals([agent EXCEPT !.playwright = p,
                                               !.obj[p].pw = "running"],
                                 p, [l EXCEPT !.pc = "w_launch"])
        /\ ScraperFrame

\* self.browser = await self.playwright.chromium.launch(...)
ResumeLaunch(p) ==
    LET l == agent.procs[p]
    IN  /\ l.pc = "w_launch"
        /\ \/ agent' = SetLocals(agent, p, Fail(agent, l, "launch"))
           \/ /\ agent.obj[p].pw = "running"
              /\ agent' = SetLocals([agent EXCEPT !.browser = p,
                                                  !.obj[p].browser = "open"],
                                    p, [l EXCEPT !.pc = "w_new_page"])
        /\ ScraperFrame

\* self.page = await self.browser.new_page(), then self.page.goto(url_str)
ResumeNewPage(p) ==
    LET l == agent.procs[p]
    IN  /\ l.pc = "w_new_page"
        /\ \/ agent' = SetLocals(agent, p, Fail(agent, l, "new_page"))
           \/ /\ agent.obj[p].browser = "open"
              /\ agent' = SetLocals([agent EXCEPT !.page = p,
                                                  !.obj[p].page = "open"],
                                    p, [l EXCEPT !.pc = "w_goto", !.h = p])
        /\ ScraperFrame

\* the ways the operation `op` that a call waits for on page l.h can end: it
\* raises when that page was closed meanwhile, it may raise for a reason of
\* its own, and otherwise the call goes on to its next page operation
PageOpEnds(a, l, op, next, where, mayfail) ==
    IF a.obj[l.h].page # "open"
    THEN {Fail(a, [l EXCEPT !.used = "closed"], op)}
    ELSE {NextPageOp(a, l, next, where)}
            \cup (IF mayfail THEN {Fail(a, l, op)} ELSE {})

\* await self.page.goto(url_str, wait_until="load")
ResumeGoto(p) ==
    /\ agent.procs[p].pc = "w_goto"
    /\ \E l \in PageOpEnds(agent, agent.procs[p], "w_goto", "w_timeout",
                           "wait_for_timeout", TRUE) :
          agent' = SetLocals(agent, p, l)
    /\ ScraperFrame

\* await self.page.wait_for_timeout(2000)
ResumeTimeout(p) ==
    /\ agent.procs[p].pc = "w_timeout"
    /\ \E l \in PageOpEnds(agent, agent.procs[p], "w_timeout", "w_content",
                           "content", FALSE) :
          agent' = SetLocals(agent, p, l)
    /\ ScraperFrame

\* return await self.page.content(), then scraper.screenshot_buffer()
ResumeContent(p) ==
    /\ agent.procs[p].pc = "w_content"
    /\ \E l \in PageOpEnds(agent, agent.procs[p], "w_content", "w_screenshot",
                           "screenshot", FALSE) :
          agent' = SetLocals(agent, p, l)
    /\ ScraperFrame

\* screenshot = await scraper.screenshot_buffer(), then process_with_llm
\* (which has no await of its own) and the finally clause
ResumeScreenshot(p) ==
    LET l == agent.procs[p]
    IN  /\ l.pc = "w_screenshot"
        /\ \/ /\ agent.obj[l.h].page # "open"
              /\ agent' = SetLocals(agent, p,
                             Fail(agent, [l EXCEPT !.used = "closed"], "w_screenshot"))
           \/ /\ agent.obj[l.h].page = "open"
              /\ \/ agent' = SetLocals(agent, p, Fail(agent, l, "w_screenshot"))
                 \/ agent' = SetLocals(agent, p,
                                Fail(agent, [l EXCEPT !.shot = TRUE], "llm"))
                 \/ agent' = SetLocals(agent, p,
                                EnterClose(agent, [l EXCEPT !.shot = TRUE,
                                                            !.result = "parsed"]))
        /\ ScraperFrame

\* close(): await self.browser.close() ends, then self.playwright.stop()
ResumeBrowserClose(p) ==
    LET l == agent.procs[p]
    IN  /\ l.pc = "w_browser_close"
        /\ \/ agent' = SetLocals(agent, p,
                          [l EXCEPT !.pc = "raised", !.exc = "Error"])
           \/ LET a == [agent EXCEPT !.obj[l.h] = CloseBrowser(@)]
              IN  agent' = SetLocals(a, p,
                      IF a.playwright = 0
                      THEN [l EXCEPT !.pc = "raised", !.exc = "AttributeError"]
                      ELSE [l EXCEPT !.pc = "w_stop", !.h = a.playwright])
        /\ ScraperFrame

\* close(): await self.playwright.stop() ends, the three attributes are set
\* to None, and webscraper executes `return result, screenshot`, which raises
\* UnboundLocalError when screenshot was never assigned
ResumeStop(p) ==
    LET l == agent.procs[p]
    IN  /\ l.pc = "w_stop"
        /\ \/ agent' = SetLocals(agent, p,
                          [l EXCEPT !.pc = "raised", !.exc = "Error"])
           \/ agent' = SetLocals([agent EXCEPT !.obj[l.h] = StopPlaywright(@),
                                               !.playwright = 0,
                                               !.browser = 0, !.page = 0],
                                 p,
                                 IF l.shot
                                 THEN [l EXCEPT !.pc = "returned"]
                                 ELSE [l EXCEPT !.pc = "raised",
                                                !.exc = "UnboundLocalError"])
        /\ ScraperFrame

NextScraper ==
    \E p \in Procs :
        \/ Webscraper(p)
        \/ ResumeStart(p)
        \/ ResumeLaunch(p)
        \/ ResumeNewPage(p)
        \/ ResumeGoto(p)
        \/ ResumeTimeout(p)
        \/ ResumeContent(p)
        \/ ResumeScreenshot(p)
        \/ ResumeBrowserClose(p)
        \/ ResumeStop(p)

SpecScraper == InitScraper /\ [][NextScraper]_vars

(***************************************************************************)
(* The chunker: split_documents of rag/document_loader.py, that is          *)
(* RecursiveCharacterTextSplitter(chunk_size, chunk_overlap,               *)
(* length_function=len, separators=["\n\n", "\n", " ", ""]) applied to the  *)
(* text of each document.  A text is a sequence of characters.             *)
(***************************************************************************)
MaxTextLen == 5
Chars == {"a", "b", " ", "\n"}
ChunkSizes == {2, 3}
ChunkOverlaps == {0, 1}

RECURSIVE TextsUpTo(_)
TextsUpTo(n) ==
    IF n = 0 THEN {<<>>}
    ELSE LET shorter == TextsUpTo(n - 1)
         IN  shorter \cup {Append(t, c) : t \in {x \in shorter : Len(x) = n - 1},
                                          c \in Chars}

\* separators=["\n\n", "\n", " ", ""]
SEPARATORS == << <<"\n", "\n">>, <<"\n">>, <<" ">>, <<>> >>

Whitespace == {" ", "\n"}

Drop(t, n) == SubSeq(t, n + 1, Len(t))
StartsWith(t, p) == Len(t) >= Len(p) /\ SubSeq(t, 1, Len(p)) = p

\* re.search(separator, text)
Contains(t, sep) == \E i \in 0..(Len(t) - Len(sep)) : StartsWith(Drop(t, i), sep)

\* the pieces of t between the leftmost non-overlapping occurrences of sep
RECURSIVE RawSplit(_, _)
RawSplit(t, sep) ==
    IF t = <<>> THEN << <<>> >>
    ELSE IF StartsWith(t, sep)
         THEN << <<>> >> \o RawSplit(Drop(t, Len(sep)), sep)
         ELSE LET r == RawSplit(Tail(t), sep)
              IN  << <<Head(t)>> \o r[1] >> \o Tail(r)

\* _split_text_with_regex with keep_separator: each separator stays at the
\* start of the piece that follows it, empty pieces are dropped; the empty
\* separator splits into single characters
SplitWithSeparator(t, sep) ==
    IF sep = <<>> THEN [i \in 1..Len(t) |-> <<t[i]>>]
    ELSE LET raw  == RawSplit(t, sep)
             kept == [i \in 1..Len(raw) |-> IF i = 1 THEN raw[1] ELSE sep \o raw[i]]
         IN  SelectSeq(kept, LAMBDA x : x # <<>>)

RECURSIVE Flatten(_)
Flatten(ss) == IF ss = <<>> THEN <<>> ELSE Head(ss) \o Flatten(Tail(ss))

RECURSIVE LStrip(_)
LStrip(t) == IF t # <<>> /\ Head(t) \in Whitespace THEN LStrip(Tail(t)) ELSE t
RECURSIVE RStrip(_)
RStrip(t) ==
    IF t # <<>> /\ t[Len(t)] \in Whitespace THEN RStrip(SubSeq(t, 1, Len(t) - 1)) ELSE t

\* variant: the joined pieces are kept as they are
JoinDocs_nostrip(pieces) == Flatten(pieces)

\* _join_docs: the pieces joined (the separators are inside the pieces) and
\* stripped of leading and trailing whitespace
JoinDocs(pieces) == LStrip(RStrip(Flatten(pieces)))

\* variant: nothing is dropped from the current chunk
DropFront_none(cur, total, len, size, overlap) == [cur |-> cur, total |-> total]

\* the while loop of _merge_splits: pieces are dropped from the front of the
\* current chunk until what is left is within the overlap and the next piece fits
RECURSIVE DropFront(_, _, _, _, _)
DropFront(cur, total, len, size, overlap) ==
    IF total > overlap \/ (total + len > size /\ total > 0)
    THEN DropFront(Tail(cur), total - Len(Head(cur)), len, size, overlap)
    ELSE [cur |-> cur, total |-> total]

\* _merge_splits from piece i on: docs are the chunks closed so far, cur the
\* pieces of the chunk being filled and total their length
RECURSIVE MergeFrom(_, _, _, _, _, _, _)
MergeFrom(splits, i, docs, cur, total, size, overlap) ==
    IF i > Len(splits)
    THEN IF JoinDocs(cur) # <<>> THEN Append(docs, JoinDocs(cur)) ELSE docs
    ELSE LET d    == splits[i]
             full == total + Len(d) > size
             docs2 == IF full /\ cur # <<>> /\ JoinDocs(cur) # <<>>
                      THEN Append(docs, JoinDocs(cur)) ELSE docs
             kept == IF full /\ cur # <<>>
                     THEN DropFront(cur, total, Len(d), size, overlap)
                     ELSE [cur |-> cur, total |-> total]
         IN  MergeFrom(splits, i + 1, docs2, Append(kept.cur, d),
                       kept.total + Len(d), size, overlap)

MergeSplits(splits, size, overlap) == MergeFrom(splits, 1, <<>>, <<>>, 0, size, overlap)

\* index of the first separator of seps that occurs in t (the last one, the
\* empty separator, otherwise)
FirstSeparator(t, seps) ==
    IF \E k \in 1..Len(seps) : seps[k] = <<>> \/ Contains(t, seps[k])
    THEN CHOOSE k \in 1..Len(seps) :
            /\ seps[k] = <<>> \/ Contains(t, seps[k])
            /\ \A j \in 1..(k - 1) : ~(seps[j] = <<>> \/ Contains(t, seps[j]))
    ELSE Len(seps)

\* _split_text: split on the first separator that occurs, merge the pieces
\* shorter than chunk_size, split the others again on the finer separators
RECURSIVE SplitText(_, _, _, _)
RECURSIVE SplitPieces(_, _, _, _, _, _, _)
SplitPieces(splits, i, good, final, rest, size, overlap) ==
    IF i > Len(splits)
    THEN IF good # <<>> THEN final \o MergeSplits(good, size, overlap) ELSE final
    ELSE LET p == splits[i]
         IN  IF Len(p) < size
             THEN SplitPieces(splits, i + 1, Append(good, p), final, rest, size, overlap)
             ELSE LET merged == IF good # <<>>
                                THEN final \o MergeSplits(good, size, overlap)
                                ELSE final
                      finer  == IF rest = <<>> THEN <<p>>
                                ELSE SplitText(p, rest, size, overlap)
                  IN  SplitPieces(splits, i + 1, <<>>, merged \o finer, rest,
                                  size, overlap)

SplitText(t, seps, size, overlap) ==
    LET k    == FirstSeparator(t, seps)
        rest == IF seps[k] = <<>> THEN <<>> ELSE SubSeq(seps, k + 1, Len(seps))
    IN  SplitPieces(SplitWithSeparator(t, seps[k]), 1, <<>>, <<>>, rest, size, overlap)

\* text_splitter.split_documents(documents) on one document
split_documents(t, chunk_size, chunk_overlap) ==
    SplitText(t, SEPARATORS, chunk_size, chunk_overlap)

\* prepare_documents_for_vectorstore: "id": f"doc_{i}"
DocId(i) == "doc_" \o ToString(i)
prepare_documents_for_vectorstore(chunks, meta) ==
    [i \in 1..Len(chunks) |->
        [id |-> DocId(i - 1), text |-> chunks[i], metadata |-> meta]]

\* pages a further source may hold
NextTexts == {<<"a">>, <<"a", " ", "b">>}

InitChunker ==
    /\ index = {} /\ sources = <<>> /\ nextUuid = 0
    /\ call = NoCall /\ ret = NoRet /\ last = NoRet /\ ingests = 0
    /\ InitQuery
    /\ conc = NoConc
    /\ boot = NoBoot /\ agent = [pc |-> "none"]
    /\ \E u \in URLS, t \in TextsUpTo(MaxTextLen),
          cs \in ChunkSizes, co \in ChunkOverlaps :
          chunker = [pc |-> "call", url |-> u, text |-> t, chunk_size |-> cs,
                     chunk_overlap |-> co, chunks |-> <<>>, prepared |-> <<>>,
                     earlier |-> <<>>]

SplitDocumentsCall ==
    /\ chunker.pc = "call"
    /\ chunker' = [chunker EXCEPT
                     !.pc = "split",
                     !.chunks = split_documents(chunker.text, chunker.chunk_size,
                                                chunker.chunk_overlap)]
    /\ UNCHANGED <<ivars, qvars, kvars, svars>>

PrepareDocuments ==
    /\ chunker.pc = "split"
    /\ chunker' = [chunker EXCEPT
                     !.pc = "prepared",
                     !.prepared = prepare_documents_for_vectorstore(
                                      chunker.chunks, [source |-> chunker.url])]
    /\ UNCHANGED <<ivars, qvars, kvars, svars>>

\* the documents of a further source go through the same two functions;
\* earlier holds what the call before prepared
NextSource ==
    /\ chunker.pc = "prepared" /\ chunker.earlier = <<>>
    /\ \E u \in URLS, t \in NextTexts :
          chunker' = [chunker EXCEPT
                        !.pc = "call", !.url = u, !.text = t,
                        !.chunks = <<>>, !.prepared = <<>>,
                        !.earlier = chunker.prepared]
    /\ UNCHANGED <<ivars, qvars, kvars, svars>>

NextChunker == SplitDocumentsCall \/ PrepareDocuments \/ NextSource

SpecChunker == InitChunker /\ [][NextChunker]_vars

(***************************************************************************)
(* Properties of the chunker (checked under SpecChunker)                   *)
(***************************************************************************)
\* lengths o <= limit such that the last o characters of a are the first o of b
SharedLengths(a, b, limit) ==
    {o \in 0..Min(limit, Min(Len(a), Len(b))) :
        SubSeq(a, Len(a) - o + 1, Len(a)) = SubSeq(b, 1, o)}

\* the texts obtained by concatenating the chunks in order after removing,
\* from the start of each chunk but the first, an overlap of at most `limit`
\* characters that it shares with the end of the chunk before it
RECURSIVE Reconstructions(_, _)
Reconstructions(chunks, limit) ==
    IF chunks = <<>> THEN {<<>>}
    ELSE IF Len(chunks) = 1 THEN {chunks[1]}
    ELSE {chunks[1] \o Drop(r, o) :
             r \in Reconstructions(Tail(chunks), limit),
             o \in SharedLengths(chunks[1], chunks[2], limit)}

\* C18: the chunks of a text, concatenated in order with the overlaps (of at
\* most chunk_overlap characters) removed, give back the text exactly, and no
\* chunk is longer than chunk_size
C18_Coverage ==
    chunker.pc = "split" =>
        /\ chunker.text \in Reconstructions(chunker.chunks, chunker.chunk_overlap)
        /\ \A i \in 1..Len(chunker.chunks) :
              Len(chunker.chunks[i]) <= chunker.chunk_size

AllWhitespace(t) == \A i \in 1..Len(t) : t[i] \in Whitespace

\* t is the chunks in order, each but the first without an overlap of at most
\* `limit` characters shared with the chunk before it (prev), with nothing
\* but whitespace before, between and after them
RECURSIVE CoversUpToWhitespace(_, _, _, _)
CoversUpToWhitespace(t, chunks, prev, limit) ==
    IF chunks = <<>> THEN AllWhitespace(t)
    ELSE \E k \in 0..Len(t), o \in SharedLengths(prev, chunks[1], limit) :
            /\ AllWhitespace(SubSeq(t, 1, k))
            /\ StartsWith(Drop(t, k), Drop(chunks[1], o))
            /\ CoversUpToWhitespace(Drop(t, k + Len(chunks[1]) - o),
                                    Tail(chunks), chunks[1], limit)

\* C18 (amended): the chunks of a text, in order and with the overlaps (of at
\* most chunk_overlap characters) removed, give back the text except for
\* whitespace before, between and after the chunks; no chunk is longer than
\* chunk_size
C18_CoverageUpToWhitespace ==
    chunker.pc = "split" =>
        /\ CoversUpToWhitespace(chunker.text, chunker.chunks, <<>>,
                                chunker.chunk_overlap)
        /\ \A i \in 1..Len(chunker.chunks) :
              Len(chunker.chunks[i]) <= chunker.chunk_size

C18_Witness ==
    /\ chunker.pc = "split"
    /\ chunker.text = <<"a", "b", " ", "b", "a">>
    /\ chunker.chunk_size = 3 /\ chunker.chunk_overlap = 1
    /\ chunker.chunks = << <<"a", "b">>, <<"b", "a">> >>
    /\ chunker.text \notin Reconstructions(chunker.chunks, chunker.chunk_overlap)

(***************************************************************************)
(* Properties of the workflow (checked under SpecWorkflow)                 *)
(***************************************************************************)
\* C1: a run of the agentic graph executes at most MaxRewrites + 2 Decide steps
\* and at most MaxRewrites + 2 Grade steps, whatever Decide and the Grader
\* answer (so it is Done within MaxRewrites + 2 Decide/Grade cycles)
C1_DoneWithinCycles ==
    /\ trace.decides <= MaxRewrites + 2
    /\ trace.grades <= MaxRewrites + 2

\* C2: the number of Rewrite steps of a run never exceeds MaxRewrites, and a
\* 'not relevant' grade given when the count has reached MaxRewrites does not
\* route to Rewrite
C2_RewriteCap ==
    /\ trace.rewrites <= MaxRewrites
    /\ (graph = "v2" /\ node = "rewrite_question") => trace.rewrites < MaxRewrites

\* C3: right after the Grade step the next node is generate_answer if and only
\* if the grader's output is exactly "yes", and rewrite_question otherwise
C3_GradeRouting ==
    (graph = "v2" /\ trace.score # "-") =>
        /\ node \in {"generate_answer", "rewrite_question"}
        /\ (node = "generate_answer") <=> (trace.score = "yes")

C3_Witness ==
    /\ graph = "v2" /\ node = "rewrite_question"
    /\ trace.score = "Yes" /\ trace.grades = 2

\* C4: the question put into the Grader, Rewrite and Generate prompts is the
\* question the caller submitted; it stays the first message of the state, and
\* every Rewrite step adds one human message after it
C4_OriginalQuestion ==
    graph = "v2" =>
        /\ trace.prompt.by \in {"grade_documents", "rewrite_question", "generate_answer"}
              => trace.prompt.question = trace.orig
        /\ messages[1] = HumanMessage(trace.orig)
        /\ Cardinality({i \in 1..Len(messages) : messages[i].type = "human"})
              = 1 + trace.rewrites

C4_Witness ==
    /\ graph = "v2" /\ node = "END"
    /\ trace.rewrites = 2 /\ trace.prompt.by = "generate_answer"
    /\ messages[LastHuman(messages)].content # trace.orig

\* C5: in the graph the Query Service runs, the Generate step is entered only
\* with a context the Grade step found relevant (or at the rewrite cap)
C5_GenerateAfterRelevantGrade ==
    (graph = InstalledGraph /\ node \in {"generate", "generate_answer"}) =>
        (trace.graded \/ trace.rewrites >= MaxRewrites)

\* a QueryResponse of core/query.py execute_query has been returned
CoreResponse == response.status = "ok" /\ response.by = "core"

\* position in the context of the first chunk that came from URL u
FirstChunkFrom(ctx, u) ==
    CHOOSE k \in 1..Len(ctx) :
        /\ ctx[k].metadata.source = u
        /\ \A j \in 1..(k - 1) : ctx[j].metadata.source # u

\* C11: the sources of a response are the "source" values of the final
\* context, each exactly once, in the order of their first chunks in the context
C11_DedupOrdered ==
    (CoreResponse /\ response.context # <<>>) =>
        LET S   == response.sources
            ctx == response.context
        IN  /\ {S[i] : i \in 1..Len(S)}
                  = {ctx[k].metadata.source : k \in 1..Len(ctx)}
            /\ \A i, j \in 1..Len(S) : i # j => S[i] # S[j]
            /\ \A i, j \in 1..Len(S) :
                  (i < j) <=> (FirstChunkFrom(ctx, S[i]) < FirstChunkFrom(ctx, S[j]))

C11_Witness ==
    /\ CoreResponse /\ Len(response.context) = 4
    /\ [k \in 1..4 |-> response.context[k].metadata.source]
          = <<"u2", "u1", "u2", "u1">>
    /\ response.sources = <<"u2", "u1">>

\* C12: the sources of a response are never the empty list, and they are the
\* sentinel ['No sources found'] exactly when the final context is empty
C12_Sentinel ==
    CoreResponse =>
        /\ response.sources # <<>>
        /\ (response.sources = NO_SOURCES) <=> (response.context = <<>>)

C12_Witness ==
    /\ CoreResponse /\ response.context = <<>>
    /\ response.sources = NO_SOURCES /\ index = {}

\* C13: when the final context holds at least one match and the Grade step
\* found it relevant, the sources of the response are not empty and each of
\* them is the source URL of a chunk of that context
C13_GroundedAnswer ==
    (response.status = "ok" /\ response.graded /\ response.context # <<>>) =>
        /\ response.sources # <<>>
        /\ \A i \in 1..Len(response.sources) :
              \E k \in 1..Len(response.context) :
                 response.context[k].metadata.source = response.sources[i]

\* C14: while the Source Store holds no processed entry, no graph run is
\* started and a query call ends rejected (HTTP 400), without an answer
C14_NoSourcePolicy ==
    ProcessedUrls(sources) = <<>> =>
        /\ graph = "none"
        /\ response.status # "none" =>
              (response.status = "http400" /\ response.answer = "")

\* C16: a query fails on a capability call only after the call was retried,
\* that is after more than one attempt of it
C16_RetriedBeforeFailing ==
    response.status = "exception" => response.attempts > 1

\* C20: the Decide step is left for END when its response carries no tool call
\* and for Retrieve when it carries one, and in no other way (but for the
\* abort of the run at the recursion limit); Retrieve is followed by Grade;
\* and from END the run only returns, with the last message as the answer
C20_DecideTransitions ==
    [][/\ (graph = "v2" /\ node = "generate_query_or_respond" /\ graph' = "v2") =>
             /\ node' \in {"END", "retrieve"}
             /\ (node' = "END") <=> (messages'[Len(messages')].tool_calls = <<>>)
             /\ Len(messages') = Len(messages) + 1
       /\ (graph = "v2" /\ node = "generate_query_or_respond" /\ graph' # "v2") =>
             (steps >= RecursionLimit /\ response'.status = "error")
       /\ (graph = "v2" /\ node = "retrieve" /\ graph' = "v2") =>
             node' = "grade_documents"
       /\ (graph = "v2" /\ node = "END") =>
             /\ graph' = "none" /\ response'.status = "ok"
             /\ response'.answer = last_content(messages)]_vars

C20_Witness ==
    /\ graph = "v2" /\ node = "END"
    /\ Len(messages) = 2 /\ messages[2] = AIMessage("direct")
    /\ trace.decides = 1 /\ trace.grades = 0 /\ trace.rewrites = 0
    /\ trace.prompt.by = "none"

\* C21: the context the Retrieve step of the installed graph stores holds at
\* most the configured number of matches (search_kwargs k = 1)
C21_ContextWithinK ==
    (graph = InstalledGraph /\ "context" \in gstate.has) =>
        Len(gstate.context) <= RetrieverK

\* C15, for the query operations (under SpecWorkflow): no step of a query
\* call or of a graph run changes the Source Store
C15_QueryKeepsStatus == [][sources' = sources]_vars

(***************************************************************************)
(* Properties of ingestion (checked under Spec)                            *)
(***************************************************************************)
\* an ingestion call has returned and no other call has started since
AtReturn == call.op = "none" /\ ret.status # "none"

ErrorCaptured(r) == \E f \in DOMAIN r.source : r.source[f] = r.exc

\* C7: when the fetch of ingest_webpage raises or yields no chunk, the Source
\* is failed, carries the error, and the index is as it was before the call
C7_FetchFailure ==
    (AtReturn /\ ret.op = "ingest_webpage" /\ ret.raised_at \in {"fetch", "range"}) =>
        /\ ret.source.status = "failed"
        /\ ret.index_unchanged
        /\ ErrorCaptured(ret)

\* ordinals of the chunks of batch j (1-based) of a call
BatchOrdinals(r, j) ==
    {i \in 0..(r.n - 1) : i \div BatchSize(r.n) = j - 1}

\* the index holds chunk i of the call under the id of ingest_webpage
HoldsSplit(idx, r, i) ==
    \E e \in idx : /\ e.id = SplitId(r.url, i) /\ e.ns = Namespace(r.op)
                   /\ e.page_content = ChunkText(r.content, i)

\* C8: when a batch upsert of ingest_webpage fails, it is the last batch
\* attempted, the Source is failed, and the chunks of the batches before it
\* are in the index
C8_BatchFailure ==
    (AtReturn /\ ret.op = "ingest_webpage"
       /\ \E j \in 1..Len(ret.attempted) : ret.attempted[j] = "failed") =>
        LET k == Len(ret.attempted)
        IN  /\ ret.attempted[k] = "failed"
            /\ \A j \in 1..(k - 1) : ret.attempted[j] = "ok"
            /\ ret.source.status = "failed"
            /\ \A j \in 1..(k - 1) : \A i \in BatchOrdinals(ret, j) :
                  HoldsSplit(index, ret, i)

C8_Witness ==
    /\ AtReturn /\ ret.op = "ingest_webpage" /\ ret.n = 101
    /\ ret.attempted = <<"ok", "failed">>
    /\ HoldsSplit(index, ret, 0) /\ HoldsSplit(index, ret, 99)
    /\ ~HoldsSplit(index, ret, 100)

\* the index holds chunk i of the call: under its split id for ingest_webpage,
\* under a generated id for the other entry points
HoldsChunk(idx, r, i) ==
    \E e \in idx : /\ e.ns = Namespace(r.op)
                   /\ e.page_content = ChunkText(r.content, i)
                   /\ e.metadata.source = r.url
                   /\ r.op = "ingest_webpage" => e.id = SplitId(r.url, i)

\* C9: a returned Source in status processed has every chunk of the call in
\* the index and carries the ingestion timestamp
C9_ProcessedComplete ==
    (AtReturn /\ ret.source.status = "processed") =>
        /\ \A i \in 0..(ret.n - 1) : HoldsChunk(index, ret, i)
        /\ ret.source.scraped_at # "None"

\* C10: a second successful ingestion of a URL through the same entry point,
\* with the page unchanged, leaves the number of chunks of that URL unchanged
C10_IdempotentIngestion ==
    (/\ AtReturn /\ ret.status = "processed" /\ last.status = "processed"
     /\ last.op = ret.op /\ last.url = ret.url /\ last.content = ret.content) =>
        ret.count = last.count

\* C22: once an ingestion call has returned processed, every chunk of the call
\* is in the namespace the Retrieve steps search, and no chunk of the index is
\* in any other namespace
C22_VisibleAfterProcessed ==
    /\ (AtReturn /\ ret.source.status = "processed") =>
          \A i \in 0..(ret.n - 1) :
             \E e \in index : /\ e.ns = DefaultNamespace
                              /\ e.page_content = ChunkText(ret.content, i)
                              /\ e.metadata.source = ret.url
    /\ \A e \in index : e.ns = DefaultNamespace

\* C26: every entry an ingestion call writes to the index names the URL of
\* that call, and only it, to the source extraction of the query service
\* (which reads the "source" metadata key)
C26_SourceKeyRead ==
    [][\A e \in index' \ index :
          call.op # "none" /\ SourcesOf(<<e>>) = <<call.url>>]_vars

C26_Witness ==
    /\ ret.status = "processed" /\ ret.op = "ingest_webpage"
    /\ \E e \in index :
          /\ e.ns = "dev" /\ e.id = SplitId(ret.url, 0)
          /\ e.metadata = [source |-> ret.url, url |-> ret.url]
    /\ last.status = "processed" /\ last.op = "process_source"
    /\ \E e \in index :
          e.ns = DefaultNamespace /\ e.metadata = [source |-> last.url]

\* C27: two chunks that prepare_documents_for_vectorstore gives the same id
\* have the same source URL and the same ordinal (checked under SpecChunker
\* on the output of two calls)
C27_IdsInjective ==
    chunker.pc = "prepared" =>
        \A i \in 1..Len(chunker.earlier), j \in 1..Len(chunker.prepared) :
            chunker.earlier[i].id = chunker.prepared[j].id =>
                /\ chunker.earlier[i].metadata.source
                      = chunker.prepared[j].metadata.source
                /\ i = j

\* C28: after an ingestion of a URL that was ingested before returns
\* processed, the index holds for that URL the chunks of this ingestion and
\* no others
C28_OnlyLatestChunks ==
    (ret.status = "processed" /\ last.status # "none" /\ last.url = ret.url) =>
        /\ Cardinality(ChunksOf(index, ret.url)) = ret.n
        /\ \A e \in ChunksOf(index, ret.url) :
              \E i \in 0..(ret.n - 1) : e.page_content = ChunkText(ret.content, i)

\* C29: no step of a query, whether the query returns a response or raises,
\* changes the Source Store entries or the contents of the index
\* (checked under SpecWorkflow)
C29_QueryReadOnly ==
    [][index' = index /\ sources' = sources]_vars

C29_Witness ==
    /\ response.status = "exception"
    /\ Len(sources) = 2 /\ index # {}

ProcessedDefaults ==
    {m \in 1..Len(boot.results) : boot.results[m] = "processed"}

\* C31: every URL startup has recorded as available is a default source
\* whose ingestion ended processed (a failed one is not recorded); every
\* default source before the current one was ingested whatever the result of
\* the ones before it, and startup ends with all of them ingested and the
\* graph built
C31_DefaultSources ==
    boot.pc # "none" =>
        /\ \A j \in 1..Len(boot.available.urls) :
              \E m \in ProcessedDefaults :
                  boot.defaults[m] = boot.available.urls[j]
        /\ Len(boot.available.urls) <= Cardinality(ProcessedDefaults)
        /\ Len(boot.results) = boot.k - 1
        /\ boot.pc = "done" =>
              /\ Len(boot.results) = Len(boot.defaults)
              /\ boot.graph = InstalledGraph /\ boot.retriever

C31_Witness ==
    /\ boot.pc = "done"
    /\ boot.results = <<"failed", "processed">>
    /\ boot.graph = InstalledGraph
    /\ \E e \in index : e.metadata.source = boot.defaults[2]

(***************************************************************************)
(* Properties of webscraper (checked under SpecScraper)                    *)
(***************************************************************************)
\* call p is the only webscraper call that has started
Alone(p) == \A q \in Procs \ {p} : agent.procs[q].pc = "idle"

\* C32: a webscraper call never ends by raising; after a failure of the
\* scrape, of the screenshot or of the LLM step it has closed the scraper and
\* returns a pair whose first element is None (stated of a call that runs
\* alone)
C32_NeverRaises ==
    \A p \in Procs :
        Alone(p) =>
            /\ agent.procs[p].pc # "raised"
            /\ (agent.procs[p].pc = "returned"
                  /\ agent.procs[p].failed # "none") =>
                  /\ agent.procs[p].result = "None"
                  /\ agent.browser = 0 /\ agent.page = 0

\* C33: no webscraper call performs a page operation (goto, wait, content,
\* screenshot) on a page that the other call's close() has closed, or on a
\* page attribute that it has reset to None
C33_NoUseAfterClose ==
    \A p \in Procs : agent.procs[p].used = "none"

\* C25: within one ingest_webpage call the batches, taken in the order they
\* are sent, are consecutive slices of the chunk sequence and of the id
\* sequence (chunk i goes with id i, each chunk in one batch), none is larger
\* than 100, a batch is sent only after every earlier batch succeeded, and a
\* call that completes has sent every chunk
BatchDocs(c) == Flatten([j \in 1..Len(c.batches) |-> c.batches[j].docs])
BatchIds(c) == Flatten([j \in 1..Len(c.batches) |-> c.batches[j].ids])

C25_BatchesPartition ==
    (call.op = "ingest_webpage" /\ call.pc \in {"batch", "done", "except"}) =>
        LET sent == BatchDocs(call)
            sids == BatchIds(call)
        IN  /\ \A j \in 1..Len(call.batches) :
                  /\ Len(call.batches[j].docs) \in 1..BATCH_LIMIT
                  /\ Len(call.batches[j].ids) = Len(call.batches[j].docs)
            /\ Len(sent) <= call.n /\ Len(sids) = Len(sent)
            /\ \A k \in 1..Len(sent) :
                  /\ sent[k].page_content = ChunkText(call.content, k - 1)
                  /\ sids[k] = SplitId(call.url, k - 1)
            /\ Len(call.batches) = Len(call.attempted)
            /\ \A j \in 1..(Len(call.attempted) - 1) : call.attempted[j] = "ok"
            /\ call.pc = "batch" => Len(sent) = call.i /\ call.i < call.n
            /\ call.pc = "done" => Len(sent) = call.n

C25_Witness ==
    /\ call.op = "ingest_webpage" /\ call.pc = "done"
    /\ call.n = 101 /\ Len(call.batches) = 2
    /\ Len(call.batches[1].docs) = 100 /\ Len(call.batches[2].docs) = 1
    /\ call.batches[2].ids = <<SplitId(call.url, 100)>>

(***************************************************************************)
(* Properties of concurrent ingestion (checked under SpecConcurrent)       *)
(***************************************************************************)
BothReturned(st) ==
    \A p \in Procs : conc.procs[p].op = "returned"
                        /\ conc.procs[p].source.status = st

\* C23: whatever the order of the batch upserts of two concurrent ingestions,
\* the index holds at most one chunk per id and namespace, and when both are
\* of the same URL and saw the same content, then once one of them has
\* returned processed the chunks of the URL in the index are those one
\* ingestion alone leaves
C23_LastWriteWins ==
    /\ \A e1, e2 \in index : (e1.id = e2.id /\ e1.ns = e2.ns) => e1 = e2
    /\ \A p, q \in Procs :
          (/\ p # q
           /\ conc.procs[p].op = "returned"
           /\ conc.procs[p].source.status = "processed"
           /\ conc.procs[q].op \in {"ingest_webpage", "returned"}
           /\ conc.procs[q].url = conc.procs[p].url
           /\ conc.procs[q].content = conc.procs[p].content) =>
              ChunksOf(index, conc.procs[p].url)
                 = SingleIngestion(conc.procs[p].url, conc.procs[p].content)

C23_Witness ==
    /\ BothReturned("processed")
    /\ conc.procs[1].url = conc.procs[2].url
    /\ conc.procs[1].content = 2 /\ conc.procs[2].content = 2
    /\ conc.log = <<1, 2, 2, 1>>
    /\ Cardinality(index) = NumChunks(2)

(***************************************************************************)
(* Properties of concurrent queries (checked under SpecConcurrentQuery)    *)
(***************************************************************************)
\* C24: under every interleaving of two query calls, the Generate step of a
\* call is given the question that call submitted and the context that call
\* retrieved, and the response of a call is built from its own question and
\* context, as when the call runs alone
C24_OwnWorkflowState ==
    \A p \in Procs :
        /\ (conc.procs[p].op = "execute_query" /\ conc.procs[p].node = "END") =>
              /\ conc.procs[p].prompt.question = conc.procs[p].asked
              /\ conc.procs[p].prompt.context = JoinContent(conc.procs[p].retrieved)
        /\ (conc.procs[p].op = "returned"
              /\ conc.procs[p].response.status = "ok") =>
              /\ conc.procs[p].response.query = conc.procs[p].asked
              /\ conc.procs[p].prompt.question = conc.procs[p].asked
              /\ conc.procs[p].response.context = conc.procs[p].retrieved
              /\ conc.procs[p].response.sources
                    = sources_or_sentinel(SourcesOf(conc.procs[p].retrieved))

C24_Witness ==
    /\ \A p \in Procs : conc.procs[p].op = "returned"
                          /\ conc.procs[p].response.status = "ok"
    /\ conc.procs[1].asked = "q1" /\ conc.procs[2].asked = "q2"
    /\ conc.procs[1].response.sources = <<"u1", "u2">>
    /\ conc.procs[2].response.sources = <<"u2", "u1">>

\* C19: the Source Store holds at most one entry for a URL
C19_OneEntryPerUrl ==
    \A i, j \in 1..Len(sources) : sources[i].url = sources[j].url => i = j

\* C15: the status of an entry of the Source Store changes only from pending
\* to processed or failed, and only by the ingestion call that created the
\* entry (so a processed or failed entry never changes status again)
C15_StatusTransitions ==
    [][\A k \in 1..Len(sources), m \in 1..Len(sources') :
          (sources'[m].id = sources[k].id
             /\ sources'[m].status # sources[k].status) =>
                /\ sources[k].status = "pending"
                /\ sources'[m].status \in {"processed", "failed"}
                /\ call.op \in ProcessOps /\ call.sid = sources[k].id]_vars

C15_Witness ==
    /\ AtReturn /\ Len(sources) = 2
    /\ sources[1].url = sources[2].url
    /\ sources[1].status = "processed" /\ sources[2].status = "failed"
====
